---------------------------- MODULE Spec2Model ----------------------------
(***************************************************************************)
(* AttendMark: the attendance planner of src/app/(home)/page.tsx.          *)
(*                                                                         *)
(* Strings of the program (ISO dates, names, raw input, datesKey, the      *)
(* formatted periods) are sequences of one-character strings, so that      *)
(* split, join, trim, pad and the string comparisons are computed as the   *)
(* code computes them.  A JavaScript Date is a record [y, m, d] with m in  *)
(* 0..11, built by MakeDate, which normalises as `new Date(y, m, d)` and   *)
(* `setDate` do.                                                           *)
(***************************************************************************)
EXTENDS Integers, Sequences, FiniteSets, TLC

VARIABLES
    selectedDates,      \* useState<string[]>          (line 176)
    entries,            \* useState<Entry[]>           (line 179)
    tempInputs,         \* useState<Record<string,string>> (line 180)
    fmt,                \* useState<DateFormat>        (line 183)
    mergeMode,          \* useState<MergeMode>         (line 184)
    rowOverride,        \* useState<Record<string, MergeMode|"GLOBAL">> (line 187)
    highlightPerson,    \* useState<string|null>       (line 192)
    confirm,            \* useState<{open, date}>      (line 195)
    showResetConfirm,   \* useState(false)             (line 207)
    holidayTable,       \* the Dates hdKR.isHoliday answers true for (line 41)
    segDates,           \* argument `dates` of a call of the segment builder
    segMode,            \* argument `mode` of that call
    segFmt,             \* argument `fmt` of that call
    segments,           \* the local `segments` of that call (line 93)
    periods             \* the string that call returned (line 113)

uiVars == <<selectedDates, entries, tempInputs, fmt, mergeMode, rowOverride,
            highlightPerson, confirm, showResetConfirm>>
segVars == <<segDates, segMode, segFmt, segments, periods>>
vars == <<uiVars, holidayTable, segVars>>

(***************************************************************************)
(* Bounds of the model.                                                    *)
(***************************************************************************)
\* days in the calendar window the segment builder's inputs are drawn from
WindowLen == 6
\* calendar dates the user clicks in the interactive specifications
NumDates == 2
\* keys the override map may hold
MaxOverrides == 1

\* null: a value no string of the model equals
NULL == <<"null">>
NoSegments == <<>>

MergeModes == {"KEEP", "RED", "ALL"}
DateFormats == {"MM/DD", "YYYY.MM.DD"}
OverrideValues == MergeModes \cup {"GLOBAL"}

(***************************************************************************)
(* Characters and strings.                                                 *)
(***************************************************************************)
Digits == <<"0", "1", "2", "3", "4", "5", "6", "7", "8", "9">>

\* the characters the model uses, in UTF-16 code unit order
CodeOrder == <<" ", ",", "-", ".", "/",
               "0", "1", "2", "3", "4", "5", "6", "7", "8", "9",
               "k", "l", "|", "~">>

CodeOf == [c \in {CodeOrder[i] : i \in 1..Len(CodeOrder)} |->
              CHOOSE i \in 1..Len(CodeOrder) : CodeOrder[i] = c]

CharCode(c) == CodeOf[c]

\* comparison of a and b from their i-th characters on
RECURSIVE StrLessFrom(_, _, _)
StrLessFrom(a, b, i) ==
    IF i > Len(b) THEN FALSE
    ELSE IF i > Len(a) THEN TRUE
    ELSE IF a[i] = b[i] THEN StrLessFrom(a, b, i + 1)
    ELSE CharCode(a[i]) < CharCode(b[i])

\* a < b for strings, as JavaScript's < and the default Array.prototype.sort
StrLess(a, b) == StrLessFrom(a, b, 1)

Range(seq) == {seq[i] : i \in 1..Len(seq)}

\* String(n) for n >= 0
RECURSIVE NumToStr(_)
NumToStr(n) ==
    IF n < 10 THEN <<Digits[n + 1]>>
    ELSE NumToStr(n \div 10) \o <<Digits[(n % 10) + 1]>>

ValueOf == [c \in {Digits[i] : i \in 1..10} |->
               (CHOOSE i \in 1..10 : Digits[i] = c) - 1]

DigitVal(c) == ValueOf[c]

\* Number(s) for a string of decimal digits
RECURSIVE StrToNum(_)
StrToNum(s) ==
    IF s = <<>> THEN 0
    ELSE StrToNum(SubSeq(s, 1, Len(s) - 1)) * 10 + DigitVal(s[Len(s)])

\* s.split(c) for a one-character separator c
RECURSIVE SplitOn(_, _, _)
SplitOn(s, c, cur) ==
    IF s = <<>> THEN <<cur>>
    ELSE IF Head(s) = c THEN <<cur>> \o SplitOn(Tail(s), c, <<>>)
    ELSE SplitOn(Tail(s), c, Append(cur, Head(s)))

split(s, c) == SplitOn(s, c, <<>>)

\* parts.join(sep)
RECURSIVE join(_, _)
join(parts, sep) ==
    IF parts = <<>> THEN <<>>
    ELSE IF Len(parts) = 1 THEN parts[1]
    ELSE parts[1] \o sep \o join(Tail(parts), sep)

\* Array.from(new Set(arr)): first occurrences, in the order of arr
RECURSIVE uniqueSorted(_)
uniqueSorted(arr) ==
    IF arr = <<>> THEN <<>>
    ELSE LET init == uniqueSorted(SubSeq(arr, 1, Len(arr) - 1))
             x == arr[Len(arr)]
         IN  IF \E i \in 1..Len(init) : init[i] = x THEN init
             ELSE Append(init, x)

\* insert x into the sorted sequence s, after the elements not greater
RECURSIVE InsertSorted(_, _)
InsertSorted(s, x) ==
    IF s = <<>> THEN <<x>>
    ELSE IF StrLess(x, Head(s)) THEN <<x>> \o s
    ELSE <<Head(s)>> \o InsertSorted(Tail(s), x)

\* arr.sort() on strings (stable, code unit order)
RECURSIVE SortStrings(_)
SortStrings(arr) ==
    IF arr = <<>> THEN <<>>
    ELSE InsertSorted(SortStrings(SubSeq(arr, 1, Len(arr) - 1)), arr[Len(arr)])

(***************************************************************************)
(* Dates.                                                                  *)
(***************************************************************************)
IsLeap(y) == (y % 4 = 0 /\ y % 100 # 0) \/ y % 400 = 0

\* days of month m (0..11) of year y
DaysInMonth(y, m) ==
    IF m = 1 THEN (IF IsLeap(y) THEN 29 ELSE 28)
    ELSE IF m \in {3, 5, 8, 10} THEN 30
    ELSE 31

\* new Date(y, m, d): month and day overflow carried, local calendar date
RECURSIVE MakeDate(_, _, _)
MakeDate(y, m, d) ==
    IF m > 11 THEN MakeDate(y + 1, m - 12, d)
    ELSE IF m < 0 THEN MakeDate(y - 1, m + 12, d)
    ELSE IF d > DaysInMonth(y, m) THEN MakeDate(y, m + 1, d - DaysInMonth(y, m))
    ELSE IF d < 1 THEN
        LET pm == IF m = 0 THEN 11 ELSE m - 1
            py == IF m = 0 THEN y - 1 ELSE y
        IN  MakeDate(py, pm, d + DaysInMonth(py, pm))
    ELSE [y |-> y, m |-> m, d |-> d]

MonthOffsets == <<0, 3, 2, 5, 0, 3, 5, 1, 4, 6, 2, 4>>

\* Date.prototype.getDay(): 0 is Sunday, 6 is Saturday
getDay(dt) ==
    LET yy == IF dt.m < 2 THEN dt.y - 1 ELSE dt.y
    IN  (yy + (yy \div 4) - (yy \div 100) + (yy \div 400)
            + MonthOffsets[dt.m + 1] + dt.d) % 7

pad(n) == IF n < 10 THEN <<"0">> \o NumToStr(n) ELSE NumToStr(n)

toISO(dt) == NumToStr(dt.y) \o <<"-">> \o pad(dt.m + 1) \o <<"-">> \o pad(dt.d)

\* fromISO as the code computes it
fromISOOf(iso) ==
    LET p == split(iso, "-")
    IN  MakeDate(StrToNum(p[1]), StrToNum(p[2]) - 1, StrToNum(p[3]))

\* addDays as the code computes it
addDaysOf(iso, n) ==
    LET dt == fromISOOf(iso)
    IN  toISO(MakeDate(dt.y, dt.m, dt.d + n))

\* the ISO dates of the calendar days the model's dates and their successors
\* fall on
CalendarDays == {toISO(MakeDate(2024, 11, 27 + k)) : k \in 0..12}

\* the values of fromISOOf and of addDaysOf(_, 1) on those days, computed once
FromISOValues == [iso \in CalendarDays |-> fromISOOf(iso)]
NextDayValues == [iso \in CalendarDays |-> addDaysOf(iso, 1)]

fromISO(iso) ==
    IF iso \in CalendarDays THEN FromISOValues[iso] ELSE fromISOOf(iso)

addDays(iso, n) ==
    IF n = 1 /\ iso \in CalendarDays THEN NextDayValues[iso]
    ELSE addDaysOf(iso, n)

isNextDay(a, b) == addDays(a, 1) = b

\* formatDate as the code computes it
formatDateOf(iso, f) ==
    LET dt == fromISO(iso)
    IN  IF f = "MM/DD" THEN pad(dt.m + 1) \o <<"/">> \o pad(dt.d)
        ELSE NumToStr(dt.y) \o <<".">> \o pad(dt.m + 1) \o <<".">> \o pad(dt.d)

\* its values on the calendar days of the model, computed once
FormatValues ==
    [f \in {"MM/DD", "YYYY.MM.DD"} |-> [iso \in CalendarDays |-> formatDateOf(iso, f)]]

formatDate(iso, f) ==
    IF iso \in CalendarDays /\ f \in DOMAIN FormatValues THEN FormatValues[f][iso]
    ELSE formatDateOf(iso, f)

(***************************************************************************)
(* Holidays.                                                               *)
(***************************************************************************)
isKoreanHolidayISO(iso) == fromISO(iso) \in holidayTable

isRedDay(iso) == getDay(fromISO(iso)) = 0 \/ isKoreanHolidayISO(iso)

\* RedLoop with isRedDay as its test: Saturdays do not bridge
RECURSIVE RedLoopRedDayOnly(_, _)
RedLoopRedDayOnly(cur, bISO) ==
    IF StrLess(cur, bISO) THEN
        IF ~isRedDay(cur) THEN FALSE
        ELSE RedLoopRedDayOnly(addDays(cur, 1), bISO)
    ELSE TRUE

RECURSIVE RedLoop(_, _)
RedLoop(cur, bISO) ==
    IF StrLess(cur, bISO) THEN
        LET dt == fromISO(cur)
            isSat == getDay(dt) = 6
            isSun == getDay(dt) = 0
            isHoliday == isKoreanHolidayISO(cur)
        IN  IF ~(isSat \/ isSun \/ isHoliday) THEN FALSE
            ELSE RedLoop(addDays(cur, 1), bISO)
    ELSE TRUE

areAllWeekendOrHolidayBetween(aISO, bISO) == RedLoop(addDays(aISO, 1), bISO)

(***************************************************************************)
(* Segment builder.                                                        *)
(***************************************************************************)
\* Connect with the bridging attached to the wrong mode
ConnectWrongMode(prev, cur, mode) ==
    isNextDay(prev, cur)
        \/ (mode = "KEEP" /\ areAllWeekendOrHolidayBetween(prev, cur))

\* the `connect` of one loop iteration
Connect(prev, cur, mode) ==
    isNextDay(prev, cur)
        \/ (mode = "RED" /\ areAllWeekendOrHolidayBetween(prev, cur))

\* SegLoop closing a segment at cur instead of prev
RECURSIVE SegLoopCloseAtCur(_, _, _, _, _, _)
SegLoopCloseAtCur(dates, mode, i, start, prev, segs) ==
    IF i > Len(dates) THEN Append(segs, <<start, prev>>)
    ELSE LET cur == dates[i]
         IN  IF isNextDay(prev, cur)
                    \/ (mode = "RED" /\ areAllWeekendOrHolidayBetween(prev, cur))
             THEN SegLoopCloseAtCur(dates, mode, i + 1, start, cur, segs)
             ELSE SegLoopCloseAtCur(dates, mode, i + 1, cur, cur,
                                    Append(segs, <<start, cur>>))

\* the for loop over dates[i], i >= 1, and the push after it; i is 1-based here
RECURSIVE SegLoop(_, _, _, _, _, _)
SegLoop(dates, mode, i, start, prev, segs) ==
    IF i > Len(dates) THEN Append(segs, <<start, prev>>)
    ELSE LET cur == dates[i]
         IN  IF Connect(prev, cur, mode)
             THEN SegLoop(dates, mode, i + 1, start, cur, segs)
             ELSE SegLoop(dates, mode, i + 1, cur, cur,
                          Append(segs, <<start, prev>>))

\* the local `segments` when the builder reaches its return, dates non-empty
buildSegments(dates, mode) ==
    IF mode = "ALL" THEN << <<dates[1], dates[Len(dates)]>> >>
    ELSE SegLoop(dates, mode, 2, dates[1], dates[1], <<>>)

\* segments.map(...).join(", ")
formatSegments(segs, f) ==
    join([i \in 1..Len(segs) |->
            IF segs[i][1] = segs[i][2] THEN formatDate(segs[i][1], f)
            ELSE formatDate(segs[i][1], f) \o <<"~">> \o formatDate(segs[i][2], f)],
         <<",", " ">>)

buildFormattedPeriodsFromDates(dates, mode, f) ==
    IF Len(dates) = 0 THEN <<>>
    ELSE formatSegments(buildSegments(dates, mode), f)

(***************************************************************************)
(* Aggregation.                                                            *)
(***************************************************************************)
\* a.localeCompare(b) < 0 for the strings of the model: digits, "-" and the
\* lower-case letters of the names collate in code unit order
localeCompareLess(a, b) == StrLess(a, b)

\* the first loop of aggregateByPerson: m as the sequence of its [name, dates]
\* pairs in Map insertion order, after pushing date for the names nms[j..]
RECURSIVE PushNames(_, _, _, _)
PushNames(m, date, nms, j) ==
    IF j > Len(nms) THEN m
    ELSE LET nm == nms[j]
         IN  IF nm = <<>> THEN PushNames(m, date, nms, j + 1)
             ELSE IF \E i \in 1..Len(m) : m[i].name = nm
             THEN LET i == CHOOSE i \in 1..Len(m) : m[i].name = nm
                  IN  PushNames([m EXCEPT ![i].dates = Append(@, date)],
                                date, nms, j + 1)
             ELSE PushNames(Append(m, [name |-> nm, dates |-> <<date>>]),
                            date, nms, j + 1)

RECURSIVE InvertEntries(_, _, _)
InvertEntries(m, es, i) ==
    IF i > Len(es) THEN m
    ELSE InvertEntries(PushNames(m, es[i].date, es[i].names, 1), es, i + 1)

\* name -> sorted unique ISO dates, in Map insertion order
NameDates(es) ==
    LET m == InvertEntries(<<>>, es, 1)
    IN  [i \in 1..Len(m) |->
            [name |-> m[i].name, dates |-> uniqueSorted(SortStrings(m[i].dates))]]

\* insert row r into rows sorted by name, after the rows not greater (stable)
RECURSIVE InsertRow(_, _)
InsertRow(rows, r) ==
    IF rows = <<>> THEN <<r>>
    ELSE IF localeCompareLess(r.name, Head(rows).name) THEN <<r>> \o rows
    ELSE <<Head(rows)>> \o InsertRow(Tail(rows), r)

\* rows.sort((a, b) => a.name.localeCompare(b.name, "ko"))
RECURSIVE SortRows(_)
SortRows(rows) ==
    IF rows = <<>> THEN <<>>
    ELSE InsertRow(SortRows(SubSeq(rows, 1, Len(rows) - 1)), rows[Len(rows)])

\* MakeRows counting the segments of the periods as days
RECURSIVE MakeRowsCountSegments(_, _, _, _)
MakeRowsCountSegments(m, i, f, mode) ==
    IF i > Len(m) THEN <<>>
    ELSE IF Len(m[i].dates) = 0 THEN MakeRowsCountSegments(m, i + 1, f, mode)
    ELSE <<[name |-> m[i].name,
            periods |-> buildFormattedPeriodsFromDates(m[i].dates, mode, f),
            days |-> Len(buildSegments(m[i].dates, mode)),
            datesKey |-> join(m[i].dates, <<",">>)]>>
         \o MakeRowsCountSegments(m, i + 1, f, mode)

\* the loop that pushes a Row for every name with dates
RECURSIVE MakeRows(_, _, _, _)
MakeRows(m, i, f, mode) ==
    IF i > Len(m) THEN <<>>
    ELSE IF Len(m[i].dates) = 0 THEN MakeRows(m, i + 1, f, mode)
    ELSE <<[name |-> m[i].name,
            periods |-> buildFormattedPeriodsFromDates(m[i].dates, mode, f),
            days |-> Len(m[i].dates),
            datesKey |-> join(m[i].dates, <<",">>)]>>
         \o MakeRows(m, i + 1, f, mode)

\* aggregateByPerson without the final sort
aggregateUnsorted(es, f, mode) == MakeRows(NameDates(es), 1, f, mode)

aggregateByPerson(es, f, mode) == SortRows(MakeRows(NameDates(es), 1, f, mode))

byPerson == aggregateByPerson(entries, fmt, mergeMode)

\* GroupKey without the datesKey
GroupKeyDaysOnly(r) == NumToStr(r.days)

\* `${r.datesKey}|${r.days}`
GroupKey(r) == r.datesKey \o <<"|">> \o NumToStr(r.days)

\* the first loop of groupedForRowSpan: groups as the sequence of its
\* [key, rows] pairs in property insertion order
RECURSIVE GroupRows(_, _, _)
GroupRows(groups, rows, i) ==
    IF i > Len(rows) THEN groups
    ELSE LET key == GroupKey(rows[i])
         IN  IF \E g \in 1..Len(groups) : groups[g].key = key
             THEN LET g == CHOOSE g \in 1..Len(groups) : groups[g].key = key
                  IN  GroupRows([groups EXCEPT ![g].rows = Append(@, rows[i])],
                                rows, i + 1)
             ELSE GroupRows(Append(groups, [key |-> key, rows |-> <<rows[i]>>]),
                            rows, i + 1)

groupedForRowSpanOf(rows) ==
    LET groups == GroupRows(<<>>, rows, 1)
    IN  [g \in 1..Len(groups) |->
            [key |-> groups[g].key, rows |-> SortRows(groups[g].rows)]]

groupedForRowSpan == groupedForRowSpanOf(byPerson)

\* OverrideOf that finds no stored override
OverrideOfNone(ro, datesKey) == "undefined"

\* rowOverride[datesKey], "undefined" when the key is absent
OverrideOf(ro, datesKey) ==
    IF datesKey \in DOMAIN ro THEN ro[datesKey] ELSE "undefined"

\* effectiveMode without the override
effectiveModeGlobalOnly(override, mode) == mode

\* the mode a group is displayed with
effectiveMode(override, mode) ==
    IF override # "undefined" /\ override # "GLOBAL" THEN override ELSE mode

\* what the table shows for one group: its period string, its day count, the
\* value of its select and its names
RenderGroup(group, ro, mode, f) ==
    LET first == group.rows[1]
        datesKey == first.datesKey
        datesArray == IF datesKey # <<>> THEN split(datesKey, ",") ELSE <<>>
        override == OverrideOf(ro, datesKey)
    IN  [datesKey |-> datesKey,
         computedPeriods |->
             buildFormattedPeriodsFromDates(datesArray,
                                            effectiveMode(override, mode), f),
         days |-> first.days,
         select |-> IF override = "undefined" THEN "GLOBAL" ELSE override,
         names |-> [i \in 1..Len(group.rows) |-> group.rows[i].name]]

\* the rows of the generated table, one per group
RenderTable(es, ro, mode, f) ==
    LET groups == groupedForRowSpanOf(aggregateByPerson(es, f, mode))
    IN  [g \in 1..Len(groups) |-> RenderGroup(groups[g], ro, mode, f)]

table == RenderTable(entries, rowOverride, mergeMode, fmt)

(***************************************************************************)
(* The component's state and handlers.                                     *)
(***************************************************************************)
EmptyMap == [x \in {} |-> x]

\* a Record<string, T> as a function on its keys
MapSet(m, k, v) == [x \in (DOMAIN m) \cup {k} |-> IF x = k THEN v ELSE m[x]]

\* const { [k]: _, ...rest } = m
MapRemove(m, k) == [x \in (DOMAIN m) \ {k} |-> m[x]]

\* m[k] ?? ""
MapGet(m, k) == IF k \in DOMAIN m THEN m[k] ELSE <<>>

\* prev.findIndex((e) => e.date === dateISO): 0-based, -1 when there is none
findIndex(prev, dateISO) ==
    IF \E i \in 1..Len(prev) : prev[i].date = dateISO
    THEN (CHOOSE i \in 1..Len(prev) :
             /\ prev[i].date = dateISO
             /\ \A j \in 1..(i - 1) : prev[j].date # dateISO) - 1
    ELSE -1

RECURSIVE InsertEntry(_, _)
InsertEntry(es, e) ==
    IF es = <<>> THEN <<e>>
    ELSE IF localeCompareLess(e.date, Head(es).date) THEN <<e>> \o es
    ELSE <<Head(es)>> \o InsertEntry(Tail(es), e)

\* next.sort((a, b) => a.date.localeCompare(b.date))
RECURSIVE SortEntries(_)
SortEntries(es) ==
    IF es = <<>> THEN <<>>
    ELSE InsertEntry(SortEntries(SubSeq(es, 1, Len(es) - 1)), es[Len(es)])

\* the characters of the separator class [\n,、，;；\s] the model types
Separators == {",", " "}
\* the white space among them
WhiteSpace == {" "}

\* s.trim()
RECURSIVE trimStart(_)
trimStart(s) ==
    IF s # <<>> /\ Head(s) \in WhiteSpace THEN trimStart(Tail(s)) ELSE s

RECURSIVE trimEnd(_)
trimEnd(s) ==
    IF s # <<>> /\ s[Len(s)] \in WhiteSpace
    THEN trimEnd(SubSeq(s, 1, Len(s) - 1)) ELSE s

trim(s) == trimEnd(trimStart(s))

\* raw.split(/[\n,、，;；\s]+/): a run of separators splits once
RECURSIVE SplitRuns(_, _, _)
SplitRuns(s, cur, inRun) ==
    IF s = <<>> THEN <<cur>>
    ELSE IF Head(s) \in Separators
    THEN (IF inRun THEN SplitRuns(Tail(s), cur, TRUE)
          ELSE <<cur>> \o SplitRuns(Tail(s), <<>>, TRUE))
    ELSE SplitRuns(Tail(s), Append(cur, Head(s)), FALSE)

NonEmpty(x) == x # <<>>

\* the `names` of addNamesToDate
parseNames(raw) ==
    LET parts == SplitRuns(raw, <<>>, FALSE)
    IN  uniqueSorted(SelectSeq([i \in 1..Len(parts) |-> trim(parts[i])], NonEmpty))

\* the updater ensureEntry passes to setEntries
ensureEntryUpdate(prev, dateISO) ==
    IF findIndex(prev, dateISO) # -1 THEN prev
    ELSE SortEntries(Append(prev, [date |-> dateISO, names |-> <<>>]))

\* removeName deleting the event when no name is left
removeNameDropEmpty(prev, dateISO, name) ==
    LET idx == findIndex(prev, dateISO)
    IN  IF idx = -1 THEN prev
        ELSE LET left == SelectSeq(prev[idx + 1].names, LAMBDA n : n # name)
             IN  IF left = <<>>
                 THEN SelectSeq(prev, LAMBDA e : e.date # dateISO)
                 ELSE [prev EXCEPT ![idx + 1].names = left]

\* the updater removeName passes to setEntries
removeNameUpdate(prev, dateISO, name) ==
    LET idx == findIndex(prev, dateISO)
    IN  IF idx = -1 THEN prev
        ELSE LET left == SelectSeq(prev[idx + 1].names, LAMBDA n : n # name)
             IN  [prev EXCEPT ![idx + 1].names = left]

\* addNamesUpdate pushing the names without the Set
addNamesNoDedupe(prev, dateISO, names) ==
    LET idx == findIndex(prev, dateISO)
        base == IF idx = -1 THEN [date |-> dateISO, names |-> <<>>]
                ELSE prev[idx + 1]
        merged == base.names \o names
        next == IF idx = -1
                THEN Append(prev, [date |-> dateISO, names |-> merged])
                ELSE [prev EXCEPT ![idx + 1] = [base EXCEPT !.names = merged]]
    IN  SortEntries(next)

\* the updater addNamesToDate passes to setEntries, names non-empty
addNamesUpdate(prev, dateISO, names) ==
    LET idx == findIndex(prev, dateISO)
        base == IF idx = -1 THEN [date |-> dateISO, names |-> <<>>]
                ELSE prev[idx + 1]
        merged == uniqueSorted(base.names \o names)
        next == IF idx = -1
                THEN Append(prev, [date |-> dateISO, names |-> merged])
                ELSE [prev EXCEPT ![idx + 1] = [base EXCEPT !.names = merged]]
    IN  SortEntries(next)

\* entries.find((x) => x.date === iso) has names
hasData(es, iso) ==
    LET idx == findIndex(es, iso)
    IN  idx # -1 /\ Len(es[idx + 1].names) > 0

\* toggleDate without the hasData test
toggleDateNoConfirm(iso) ==
    LET isSelected == iso \in Range(selectedDates)
    IN  IF isSelected
        THEN /\ selectedDates' = SelectSeq(selectedDates, LAMBDA d : d # iso)
             /\ tempInputs' = MapRemove(tempInputs, iso)
             /\ UNCHANGED <<entries, confirm>>
        ELSE /\ selectedDates' = SortStrings(Append(selectedDates, iso))
             /\ UNCHANGED <<entries, tempInputs, confirm>>

toggleDate(iso) ==
    LET isSelected == iso \in Range(selectedDates)
    IN  IF isSelected
        THEN IF hasData(entries, iso)
             THEN /\ confirm' = [open |-> TRUE, date |-> iso]
                  /\ UNCHANGED <<selectedDates, entries, tempInputs>>
             ELSE /\ selectedDates' = SelectSeq(selectedDates, LAMBDA d : d # iso)
                  /\ tempInputs' = MapRemove(tempInputs, iso)
                  /\ UNCHANGED <<entries, confirm>>
        ELSE /\ selectedDates' = SortStrings(Append(selectedDates, iso))
             /\ UNCHANGED <<entries, tempInputs, confirm>>

\* confirmDeleteDate without the setEntries call
confirmDeleteKeepsEvent ==
    IF confirm.date = NULL
    THEN UNCHANGED <<selectedDates, entries, tempInputs, confirm>>
    ELSE LET date == confirm.date
         IN  /\ selectedDates' = SelectSeq(selectedDates, LAMBDA d : d # date)
             /\ tempInputs' = MapRemove(tempInputs, date)
             /\ confirm' = [open |-> FALSE, date |-> NULL]
             /\ UNCHANGED entries

confirmDeleteDate ==
    IF confirm.date = NULL
    THEN UNCHANGED <<selectedDates, entries, tempInputs, confirm>>
    ELSE LET date == confirm.date
         IN  /\ selectedDates' = SelectSeq(selectedDates, LAMBDA d : d # date)
             /\ entries' = SelectSeq(entries, LAMBDA e : e.date # date)
             /\ tempInputs' = MapRemove(tempInputs, date)
             /\ confirm' = [open |-> FALSE, date |-> NULL]

cancelDeleteDate ==
    /\ confirm' = [open |-> FALSE, date |-> NULL]
    /\ UNCHANGED <<selectedDates, entries, tempInputs>>

ensureEntry(dateISO) ==
    /\ entries' = ensureEntryUpdate(entries, dateISO)
    /\ UNCHANGED <<selectedDates, tempInputs, confirm>>

addNamesToDate(dateISO, raw) ==
    LET names == parseNames(raw)
    IN  IF Len(names) = 0
        THEN UNCHANGED <<selectedDates, entries, tempInputs, confirm>>
        ELSE /\ entries' = addNamesUpdate(entries, dateISO, names)
             /\ tempInputs' = MapSet(tempInputs, dateISO, <<>>)
             /\ UNCHANGED <<selectedDates, confirm>>

removeName(dateISO, name) ==
    /\ entries' = removeNameUpdate(entries, dateISO, name)
    /\ UNCHANGED <<selectedDates, tempInputs, confirm>>

\* the input's onChange for a selected date
onChangeTemp(iso, text) ==
    /\ tempInputs' = MapSet(tempInputs, iso, text)
    /\ UNCHANGED <<selectedDates, entries, confirm>>

\* the add button's onClick and the input's Enter: ensureEntry(iso), then
\* addNamesToDate(iso, (tempInputs[iso] ?? "").trim()), both updaters applied
\* in order to the same entries
onClickAdd(iso) ==
    LET raw == trim(MapGet(tempInputs, iso))
        names == parseNames(raw)
        ensured == ensureEntryUpdate(entries, iso)
    IN  IF Len(names) = 0
        THEN /\ entries' = ensured
             /\ UNCHANGED <<selectedDates, tempInputs, confirm>>
        ELSE /\ entries' = addNamesUpdate(ensured, iso, names)
             /\ tempInputs' = MapSet(tempInputs, iso, <<>>)
             /\ UNCHANGED <<selectedDates, confirm>>

\* resetAll without the setRowOverride and setHighlightPerson calls
resetKeepsOptions ==
    /\ entries' = <<>>
    /\ selectedDates' = <<>>
    /\ tempInputs' = EmptyMap
    /\ showResetConfirm' = FALSE
    /\ UNCHANGED <<fmt, mergeMode, confirm, highlightPerson, rowOverride>>

\* the reset dialog's confirm button
resetAll ==
    /\ entries' = <<>>
    /\ selectedDates' = <<>>
    /\ tempInputs' = EmptyMap
    /\ highlightPerson' = NULL
    /\ rowOverride' = EmptyMap
    /\ showResetConfirm' = FALSE
    /\ UNCHANGED <<fmt, mergeMode, confirm>>

\* personDatesMap.keys()
allPeople(es) == UNION {Range(es[i].names) : i \in 1..Len(es)}

\* personDatesMap.get(n): the dates whose event holds the name
personDates(es, n) ==
    {es[i].date : i \in {j \in 1..Len(es) : n \in Range(es[j].names)}}

highlightedDatesOf(es, hp) ==
    IF hp = NULL THEN {}
    ELSE IF hp \in allPeople(es) THEN personDates(es, hp) ELSE {}

highlightedDates == highlightedDatesOf(entries, highlightPerson)

setHighlightPerson(n) ==
    /\ highlightPerson' = IF highlightPerson = n THEN NULL ELSE n
    /\ UNCHANGED <<selectedDates, entries, tempInputs, fmt, mergeMode,
                   rowOverride, confirm, showResetConfirm>>

\* the select's onChange of the group with this datesKey
setRowOverride(datesKey, val) ==
    /\ rowOverride' = MapSet(rowOverride, datesKey, val)
    /\ UNCHANGED <<selectedDates, entries, tempInputs, fmt, mergeMode,
                   highlightPerson, confirm, showResetConfirm>>

setMergeMode(m) ==
    /\ mergeMode' = m
    /\ UNCHANGED <<selectedDates, entries, tempInputs, fmt, rowOverride,
                   highlightPerson, confirm, showResetConfirm>>

setFmt(f) ==
    /\ fmt' = f
    /\ UNCHANGED <<selectedDates, entries, tempInputs, mergeMode, rowOverride,
                   highlightPerson, confirm, showResetConfirm>>

(***************************************************************************)
(* Calls of the segment builder on arbitrary well-formed arguments.        *)
(***************************************************************************)
WindowStart == toISO(MakeDate(2024, 11, 27))

WindowDates == {addDays(WindowStart, k) : k \in 0..(WindowLen - 1)}

RECURSIVE SetToSortedSeq(_)
SetToSortedSeq(S) ==
    IF S = {} THEN <<>>
    ELSE LET x == CHOOSE x \in S : TRUE
         IN  InsertSorted(SetToSortedSeq(S \ {x}), x)

\* the ascending duplicate-free non-empty date arrays over the window
DateArrays == {SetToSortedSeq(S) : S \in (SUBSET WindowDates) \ {{}}}

UIInit ==
    /\ selectedDates = <<>>
    /\ entries = <<>>
    /\ tempInputs = EmptyMap
    /\ fmt = "YYYY.MM.DD"
    /\ mergeMode = "KEEP"
    /\ rowOverride = EmptyMap
    /\ highlightPerson = NULL
    /\ confirm = [open |-> FALSE, date |-> NULL]
    /\ showResetConfirm = FALSE

\* no call of the segment builder is being observed
SegIdle ==
    /\ segDates = <<>>
    /\ segMode = "KEEP"
    /\ segFmt = "YYYY.MM.DD"
    /\ segments = NoSegments
    /\ periods = <<>>

SegInit ==
    /\ UIInit
    /\ holidayTable \in SUBSET {fromISO(d) : d \in WindowDates}
    /\ segDates \in DateArrays
    /\ segMode \in MergeModes
    /\ segFmt \in DateFormats
    /\ segments = NoSegments
    /\ periods = <<>>

\* one call buildFormattedPeriodsFromDates(segDates, segMode, segFmt)
BuildCall ==
    /\ segments = NoSegments
    /\ segments' = buildSegments(segDates, segMode)
    /\ periods' = buildFormattedPeriodsFromDates(segDates, segMode, segFmt)
    /\ UNCHANGED <<uiVars, holidayTable, segDates, segMode, segFmt>>

SegNext == BuildCall

SpecSeg == SegInit /\ [][SegNext]_vars

(***************************************************************************)
(* The interactive session.                                                *)
(***************************************************************************)
\* offsets, from WindowStart, of the calendar cells the user clicks: Friday
\* 2024-12-27, Monday 12-30, Tuesday 12-31, Thursday 2025-01-02, Friday 01-03
UIDateOffsets == <<0, 3, 4, 6, 7>>

UIDates == {addDays(WindowStart, UIDateOffsets[i]) : i \in 1..NumDates}

\* the public holidays of the KR table around the window
KRHolidays == {MakeDate(2024, 11, 25), MakeDate(2025, 0, 1)}

\* the texts the user types into a date's input
RawInputs == {<<>>, <<",">>, <<" ", "k">>, <<"l", ",", " ", "k">>}

AllNames == UNION {Range(parseNames(r)) : r \in RawInputs}

Init ==
    /\ UIInit
    /\ holidayTable = KRHolidays
    /\ SegIdle

OptionVars == <<fmt, mergeMode, rowOverride, highlightPerson, showResetConfirm>>

\* the dialogs are overlays over the page, which stays reachable by keyboard:
\* no handler tests whether a dialog is open
ClickDate ==
    \E iso \in UIDates :
        /\ toggleDate(iso)
        /\ UNCHANGED <<OptionVars, holidayTable, segVars>>

ClickConfirmDelete ==
    /\ confirm.open
    /\ confirmDeleteDate
    /\ UNCHANGED <<OptionVars, holidayTable, segVars>>

ClickCancelDelete ==
    /\ confirm.open
    /\ cancelDeleteDate
    /\ UNCHANGED <<OptionVars, holidayTable, segVars>>

TypeNames ==
    \E iso \in Range(selectedDates) : \E text \in RawInputs :
        /\ onChangeTemp(iso, text)
        /\ UNCHANGED <<OptionVars, holidayTable, segVars>>

ClickAdd ==
    \E iso \in Range(selectedDates) :
        /\ onClickAdd(iso)
        /\ UNCHANGED <<OptionVars, holidayTable, segVars>>

\* the x of a name chip, shown for the names of a selected date's event
ClickRemoveName ==
    \E iso \in Range(selectedDates) :
        /\ findIndex(entries, iso) # -1
        /\ \E n \in Range(entries[findIndex(entries, iso) + 1].names) :
              removeName(iso, n)
        /\ UNCHANGED <<OptionVars, holidayTable, segVars>>

ClickResetButton ==
    /\ showResetConfirm' = TRUE
    /\ UNCHANGED <<selectedDates, entries, tempInputs, fmt, mergeMode,
                   rowOverride, highlightPerson, confirm, holidayTable, segVars>>

ClickCancelReset ==
    /\ showResetConfirm
    /\ showResetConfirm' = FALSE
    /\ UNCHANGED <<selectedDates, entries, tempInputs, fmt, mergeMode,
                   rowOverride, highlightPerson, confirm, holidayTable, segVars>>

ClickConfirmReset ==
    /\ showResetConfirm
    /\ resetAll
    /\ UNCHANGED <<holidayTable, segVars>>

Next ==
    \/ ClickDate
    \/ ClickConfirmDelete
    \/ ClickCancelDelete
    \/ TypeNames
    \/ ClickAdd
    \/ ClickRemoveName
    \/ ClickResetButton
    \/ ClickCancelReset
    \/ ClickConfirmReset

Spec == Init /\ [][Next]_vars

(***************************************************************************)
(* The handlers called as functions, on any arguments.                     *)
(***************************************************************************)
CallToggleDate ==
    \E iso \in UIDates :
        /\ toggleDate(iso)
        /\ UNCHANGED <<OptionVars, holidayTable, segVars>>

CallConfirmDeleteDate ==
    /\ confirmDeleteDate
    /\ UNCHANGED <<OptionVars, holidayTable, segVars>>

CallCancelDeleteDate ==
    /\ cancelDeleteDate
    /\ UNCHANGED <<OptionVars, holidayTable, segVars>>

CallEnsureEntry ==
    \E dateISO \in UIDates :
        /\ ensureEntry(dateISO)
        /\ UNCHANGED <<OptionVars, holidayTable, segVars>>

CallAddNamesToDate ==
    \E dateISO \in UIDates : \E raw \in RawInputs :
        /\ addNamesToDate(dateISO, raw)
        /\ UNCHANGED <<OptionVars, holidayTable, segVars>>

CallRemoveName ==
    \E dateISO \in UIDates : \E name \in AllNames :
        /\ removeName(dateISO, name)
        /\ UNCHANGED <<OptionVars, holidayTable, segVars>>

CallReset ==
    /\ resetAll
    /\ UNCHANGED <<holidayTable, segVars>>

NextApi ==
    \/ CallToggleDate
    \/ CallConfirmDeleteDate
    \/ CallCancelDeleteDate
    \/ CallEnsureEntry
    \/ CallAddNamesToDate
    \/ CallRemoveName
    \/ CallReset

SpecApi == Init /\ [][NextApi]_vars

(***************************************************************************)
(* The generated table under the display options.                          *)
(***************************************************************************)
\* the name lists an event can hold
NameLists == {nl \in UNION {[1..n -> AllNames] : n \in 0..Cardinality(AllNames)} :
                 \A i, j \in 1..Len(nl) : i # j => nl[i] # nl[j]}

\* the event lists over the clicked dates: one event per date of some set of
\* dates, ascending by date
EventLists ==
    UNION {{[i \in 1..Len(SetToSortedSeq(S)) |->
                [date |-> SetToSortedSeq(S)[i], names |-> nf[SetToSortedSeq(S)[i]]]] :
              nf \in [S -> NameLists]} : S \in SUBSET UIDates}

\* a session in which the dates of the events are the selected dates and
\* their inputs were emptied by an add
ViewInit ==
    /\ entries \in EventLists
    /\ selectedDates = [i \in 1..Len(entries) |-> entries[i].date]
    /\ tempInputs = [d \in Range(selectedDates) |-> <<>>]
    /\ fmt = "YYYY.MM.DD"
    /\ mergeMode = "KEEP"
    /\ rowOverride = EmptyMap
    /\ highlightPerson = NULL
    /\ confirm = [open |-> FALSE, date |-> NULL]
    /\ showResetConfirm = FALSE
    /\ holidayTable = KRHolidays
    /\ SegIdle

ChangeFormat ==
    \E f \in DateFormats :
        /\ setFmt(f)
        /\ UNCHANGED <<holidayTable, segVars>>

ChangeMergeMode ==
    \E m \in MergeModes :
        /\ setMergeMode(m)
        /\ UNCHANGED <<holidayTable, segVars>>

\* the datesKey of every group of the table
DisplayedKeys ==
    LET t == table
    IN  {t[g].datesKey : g \in 1..Len(t)}

ChangeOverride ==
    \E datesKey \in DisplayedKeys :
        \E val \in OverrideValues :
            /\ \/ datesKey \in DOMAIN rowOverride
               \/ Cardinality(DOMAIN rowOverride) < MaxOverrides
            /\ setRowOverride(datesKey, val)
            /\ UNCHANGED <<holidayTable, segVars>>

NextView ==
    \/ ChangeFormat
    \/ ChangeMergeMode
    \/ ChangeOverride
    \/ ClickRemoveName

SpecView == ViewInit /\ [][NextView]_vars

(***************************************************************************)
(* The full reset over a session with events, options and a highlight.     *)
(***************************************************************************)
\* a session that holds at least one event
ResetInit ==
    /\ ViewInit
    /\ entries # <<>>

\* a click on a participant's chip
ClickHighlight ==
    \E n \in allPeople(entries) :
        /\ setHighlightPerson(n)
        /\ UNCHANGED <<holidayTable, segVars>>

NextReset ==
    \/ ChangeFormat
    \/ ChangeMergeMode
    \/ ChangeOverride
    \/ ClickHighlight
    \/ ClickResetButton
    \/ ClickCancelReset
    \/ ClickConfirmReset

SpecReset == ResetInit /\ [][NextReset]_vars

(***************************************************************************)
(* Overrides over a session whose groups come and go.                      *)
(***************************************************************************)
\* the typed texts that hold one name
OneNameInputs == {r \in RawInputs : Len(parseNames(r)) = 1}

\* the value chosen in a group's select: the mode that joins two dates
\* across a weekend, which the initial global mode does not
OverrideChoices == {"RED"}

\* names added to a selected date
AddOneName ==
    \E iso \in Range(selectedDates) : \E raw \in OneNameInputs :
        /\ addNamesToDate(iso, raw)
        /\ UNCHANGED <<OptionVars, holidayTable, segVars>>

SetOverride ==
    \E datesKey \in DisplayedKeys :
        \E val \in OverrideChoices :
            /\ \/ datesKey \in DOMAIN rowOverride
               \/ Cardinality(DOMAIN rowOverride) < MaxOverrides
            /\ setRowOverride(datesKey, val)
            /\ UNCHANGED <<holidayTable, segVars>>

NextOverride ==
    \/ ClickDate
    \/ ClickConfirmDelete
    \/ ClickCancelDelete
    \/ AddOneName
    \/ ClickRemoveName
    \/ ChangeFormat
    \/ ChangeMergeMode
    \/ SetOverride
    \/ CallReset

SpecOverride == Init /\ [][NextOverride]_vars

(***************************************************************************)
(* Properties of the segment builder.                                      *)
(***************************************************************************)
\* calendar order of two ISO dates, by year, month and day
DateLess(a, b) ==
    LET x == fromISO(a)
        y == fromISO(b)
    IN  \/ x.y < y.y
        \/ (x.y = y.y /\ x.m < y.m)
        \/ (x.y = y.y /\ x.m = y.m /\ x.d < y.d)

DateLE(a, b) == a = b \/ DateLess(a, b)

InSeg(d, seg) == DateLE(seg[1], d) /\ DateLE(d, seg[2])

SegWithin(inner, outer) == DateLE(outer[1], inner[1]) /\ DateLE(inner[2], outer[2])

Built == segments # NoSegments

\* C1: for every non-empty ascending duplicate-free date array and every
\* merge mode, the segments the builder made are closed ranges with
\* start <= end, in strictly ascending order without overlap, whose ends are
\* dates of the array and which together contain every date of the array.
C1_SegmentsPartition ==
    Built =>
        /\ \A i \in 1..Len(segments) :
              /\ DateLE(segments[i][1], segments[i][2])
              /\ segments[i][1] \in Range(segDates)
              /\ segments[i][2] \in Range(segDates)
        /\ \A i \in 1..(Len(segments) - 1) :
              DateLess(segments[i][2], segments[i + 1][1])
        /\ \A d \in Range(segDates) :
              \E i \in 1..Len(segments) : InSeg(d, segments[i])

\* a call that made a several-day segment and a later segment
C1_Witness ==
    /\ Built
    /\ Len(segments) >= 2
    /\ segments[1][1] # segments[1][2]
    /\ Len(segDates) >= 4

\* C3: every segment made under KEEP lies within exactly one segment made
\* under RED for the same dates and holiday table, so RED makes at most as
\* many segments as KEEP.
C3_KeepWithinRed ==
    (Built /\ segMode = "KEEP") =>
        LET red == buildSegments(segDates, "RED")
        IN  /\ \A i \in 1..Len(segments) :
                 Cardinality({j \in 1..Len(red) :
                                 SegWithin(segments[i], red[j])}) = 1
            /\ Len(red) <= Len(segments)

\* a KEEP call whose dates RED joins across a gap, in part
C3_Witness ==
    /\ Built
    /\ segMode = "KEEP"
    /\ Len(buildSegments(segDates, "RED")) < Len(segments)
    /\ Len(buildSegments(segDates, "RED")) >= 2

(***************************************************************************)
(* Properties of the report.                                               *)
(***************************************************************************)
\* the dates whose event holds the name
DatesOf(es, n) == {es[i].date : i \in {j \in 1..Len(es) : n \in Range(es[j].names)}}

RowNames(rows) == {rows[i].name : i \in 1..Len(rows)}

\* C2: every report row's dayCount, and the day count the table shows for a
\* group, is the number of distinct dates whose event holds the participant's
\* name, whatever the global merge mode and the overrides are.
C2_DayCountIsDateCount ==
    LET rows == byPerson
        t == table
    IN  /\ RowNames(rows) = allPeople(entries)
        /\ \A i \in 1..Len(rows) :
              rows[i].days = Cardinality(DatesOf(entries, rows[i].name))
        /\ \A g \in 1..Len(t) : \A n \in Range(t[g].names) :
              t[g].days = Cardinality(DatesOf(entries, n))

\* a group of two dates shown as one segment, overridden, under another
\* global mode
C2_Witness ==
    LET t == table
    IN  \E g \in 1..Len(t) :
            /\ t[g].days = 2
            /\ t[g].select = "ALL"
            /\ mergeMode = "RED"
            /\ Len(t) = 2

\* C4: two distinct participants are in the same group exactly when their
\* date sets are equal, and every report row is in exactly one group.
C4_GroupedByDateSet ==
    LET groups == groupedForRowSpan
        InGroup(n, g) == n \in RowNames(groups[g].rows)
    IN  /\ \A a, b \in allPeople(entries) :
              a # b =>
                  ((\E g \in 1..Len(groups) : InGroup(a, g) /\ InGroup(b, g))
                      <=> DatesOf(entries, a) = DatesOf(entries, b))
        /\ \A n \in allPeople(entries) :
              Cardinality({g \in 1..Len(groups) : InGroup(n, g)}) = 1
        /\ \A g \in 1..Len(groups) : \A i, j \in 1..Len(groups[g].rows) :
              i # j => groups[g].rows[i].name # groups[g].rows[j].name

\* two participants entered in different orders on two dates, in one group
C4_Witness ==
    /\ Len(entries) = 2
    /\ entries[1].names # entries[2].names
    /\ Len(groupedForRowSpan) = 1
    /\ Len(groupedForRowSpan[1].rows) = 2

\* C5: the report has exactly one row for each name that occurs in an event
\* and no other row, and the rows are in ascending order of name.
C5_OneRowPerParticipant ==
    LET rows == byPerson
    IN  /\ RowNames(rows) = allPeople(entries)
        /\ Len(rows) = Cardinality(allPeople(entries))
        /\ \A i \in 1..(Len(rows) - 1) :
              localeCompareLess(rows[i].name, rows[i + 1].name)

\* an event emptied of its names beside an event whose names were entered in
\* descending order
C5_Witness ==
    /\ \E i \in 1..Len(entries) :
          /\ entries[i].names = <<>>
          /\ MapGet(tempInputs, entries[i].date) = <<>>
          /\ entries[i].date \in DOMAIN tempInputs
    /\ \E i \in 1..Len(entries) : entries[i].names = << <<"l">>, <<"k">> >>
    /\ Len(byPerson) = 2

\* the mode the claim gives a group with this datesKey
ClaimedMode(ro, mode, datesKey) ==
    IF datesKey \in DOMAIN ro /\ ro[datesKey] # "GLOBAL" THEN ro[datesKey]
    ELSE mode

PeriodsOfKey(t, datesKey) ==
    {t[g].computedPeriods : g \in {h \in 1..Len(t) : t[h].datesKey = datesKey}}

\* every group shows the builder's periods for its dates under the claimed mode
C6_DisplayedAsClaimed ==
    LET t == table
    IN  \A g \in 1..Len(t) :
            LET dates == SetToSortedSeq(DatesOf(entries, t[g].names[1]))
            IN  /\ t[g].datesKey = join(dates, <<",">>)
                /\ t[g].computedPeriods =
                       formatSegments(
                           buildSegments(dates,
                               ClaimedMode(rowOverride, mergeMode, t[g].datesKey)),
                           fmt)

\* a step that changes the global mode leaves the periods of the overridden
\* groups as they are; a step that changes an override leaves the periods of
\* the groups whose own override it does not change as they are
C6_UnaffectedGroups ==
    (mergeMode' # mergeMode \/ rowOverride' # rowOverride) =>
        \A t \in {table} :
            \A u \in {RenderTable(entries', rowOverride', mergeMode', fmt')} :
                /\ mergeMode' # mergeMode =>
                      \A g \in 1..Len(t) :
                          t[g].select \in MergeModes =>
                              PeriodsOfKey(u, t[g].datesKey) = {t[g].computedPeriods}
                /\ rowOverride' # rowOverride =>
                      \A g \in 1..Len(t) :
                          OverrideOf(rowOverride', t[g].datesKey)
                                  = OverrideOf(rowOverride, t[g].datesKey) =>
                              PeriodsOfKey(u, t[g].datesKey) = {t[g].computedPeriods}

\* C6: a group is displayed with the builder's periods for its date set under
\* its override when one other than GLOBAL is stored for its datesKey, and
\* under the global mode otherwise; a change of the global mode leaves the
\* periods of an overridden group as they are, and setting an override leaves
\* the periods of the groups with another datesKey as they are.
C6_OverridePrecedence ==
    []C6_DisplayedAsClaimed /\ [][C6_UnaffectedGroups]_vars

\* a group displayed under its override, which differs from the global mode
\* and from what the global mode would display, beside another group
C6_Witness ==
    LET t == table
    IN  /\ Len(t) = 2
        /\ \E g \in 1..Len(t) :
              /\ t[g].select \in MergeModes
              /\ t[g].select # mergeMode
              /\ t[g].computedPeriods #
                     buildFormattedPeriodsFromDates(split(t[g].datesKey, ","),
                                                    mergeMode, fmt)

(***************************************************************************)
(* Properties of the selection and the events.                             *)
(***************************************************************************)
EventDates(es) == {es[i].date : i \in 1..Len(es)}

\* C7: every event's date is a selected date.
C7_EventsOnlyOnSelectedDates == EventDates(entries) \subseteq Range(selectedDates)

Without(seq, d) == SelectSeq(seq, LAMBDA x : x # d)
EventsWithout(es, d) == SelectSeq(es, LAMBDA e : e.date # d)

C8_Step ==
    \* the confirmation opens for a selected date with names, nothing deleted
    /\ (confirm' # confirm /\ confirm'.open) =>
          /\ selectedDates' = selectedDates
          /\ entries' = entries
          /\ confirm'.date \in Range(selectedDates)
          /\ hasData(entries, confirm'.date)
    \* the confirmation closes: cancelled, or this date and its event removed
    /\ (confirm.open /\ ~confirm'.open) =>
          \/ /\ selectedDates' = selectedDates
             /\ entries' = entries
          \/ /\ selectedDates' = Without(selectedDates, confirm.date)
             /\ entries' = EventsWithout(entries, confirm.date)
    \* a selected date with names leaves the selection, or loses its event,
    \* only through the confirmation (or the full reset)
    /\ \A d \in Range(selectedDates) :
          (hasData(entries, d)
              /\ (d \notin Range(selectedDates') \/ d \notin EventDates(entries'))) =>
              \/ /\ confirm.open
                 /\ confirm.date = d
                 /\ ~confirm'.open
                 /\ selectedDates' = Without(selectedDates, d)
                 /\ entries' = EventsWithout(entries, d)
              \/ /\ showResetConfirm
                 /\ entries' = <<>>
                 /\ selectedDates' = <<>>

\* C8: toggling a selected date that has names only opens the confirmation;
\* cancelling changes neither selection nor events; only confirming removes
\* that date and its event, and nothing of any other date.
C8_DeleteNeedsConfirmation == [][C8_Step]_vars

\* the confirmation is open for a selected date with names, beside another
\* selected date with an event
C8_Witness ==
    /\ confirm.open
    /\ confirm.date \in Range(selectedDates)
    /\ hasData(entries, confirm.date)
    /\ Len(selectedDates) = 2
    /\ Len(entries) = 2

\* C9: an add on a selected date whose input holds no name leaves the event
\* list as it was.
C9_EmptyAddIsNoOp ==
    [][\A iso \in Range(selectedDates) :
           (/\ Len(parseNames(trim(MapGet(tempInputs, iso)))) = 0
            /\ onClickAdd(iso)) => entries' = entries]_vars

C10_Step ==
    \A dateISO \in UIDates : \A name \in AllNames :
        removeName(dateISO, name) =>
            /\ selectedDates' = selectedDates
            /\ Len(entries') = Len(entries)
            /\ \A i \in 1..Len(entries) :
                  /\ entries'[i].date = entries[i].date
                  /\ entries[i].date # dateISO => entries'[i] = entries[i]
                  /\ entries[i].date = dateISO =>
                        entries'[i].names = Without(entries[i].names, name)
            /\ (\A i \in 1..Len(entries) :
                    entries[i].date = dateISO => name \notin Range(entries[i].names))
                  => entries' = entries

\* C10: removeName changes neither the selection nor the dates of the event
\* list; it takes the name out of that date's event, which stays even when it
\* is left without names, and changes nothing when the name is not there.
C10_RemoveNameKeepsEvent == [][C10_Step]_vars

\* a selected date whose event was given names and has none left
C10_Witness ==
    \E i \in 1..Len(entries) :
        /\ entries[i].names = <<>>
        /\ entries[i].date \in Range(selectedDates)
        /\ entries[i].date \in DOMAIN tempInputs


(***************************************************************************)
(* The connect rule of the segment builder.                                *)
(***************************************************************************)
\* cur is the calendar day after prev
DayAfter(prev, cur) ==
    LET x == fromISO(prev)
    IN  fromISO(cur) = MakeDate(x.y, x.m, x.d + 1)

\* every calendar day strictly between prev and cur is a Saturday, a Sunday
\* or a holiday
GapIsRed(prev, cur) ==
    \A d \in CalendarDays :
        (DateLess(prev, d) /\ DateLess(d, cur)) =>
            \/ getDay(fromISO(d)) \in {0, 6}
            \/ fromISO(d) \in holidayTable

ConnectRule(prev, cur, mode) ==
    \/ mode = "ALL"
    \/ DayAfter(prev, cur)
    \/ (mode = "RED" /\ GapIsRed(prev, cur))

SameSegment(a, b) ==
    \E i \in 1..Len(segments) : InSeg(a, segments[i]) /\ InSeg(b, segments[i])

\* the places of the array after which the rule does not connect
Breaks == {i \in 1..(Len(segDates) - 1) :
              ~ConnectRule(segDates[i], segDates[i + 1], segMode)}

\* C12: two consecutive dates of the array are in one segment exactly when
\* the mode is ALL, or the second is the day after the first, or the mode is
\* RED and every day strictly between them is a Saturday, a Sunday or a
\* holiday; the segments are the runs of the array between the places where
\* that rule does not connect, so ALL makes the one segment [first, last] and
\* a single date makes one one-day segment.
C12_ConnectRule ==
    Built =>
        /\ \A i \in 1..(Len(segDates) - 1) :
              SameSegment(segDates[i], segDates[i + 1])
                  <=> ConnectRule(segDates[i], segDates[i + 1], segMode)
        /\ Len(segments) = 1 + Cardinality(Breaks)
        /\ {segments[i][1] : i \in 1..Len(segments)}
               = {segDates[1]} \cup {segDates[i + 1] : i \in Breaks}
        /\ {segments[i][2] : i \in 1..Len(segments)}
               = {segDates[Len(segDates)]} \cup {segDates[i] : i \in Breaks}
        /\ segMode = "ALL" =>
               segments = << <<segDates[1], segDates[Len(segDates)]>> >>
        /\ Len(segDates) = 1 => segments = << <<segDates[1], segDates[1]>> >>

\* a RED call that joins two dates across a gap holding a Saturday and
\* leaves a break at another gap
C12_Witness ==
    /\ Built
    /\ segMode = "RED"
    /\ Breaks # {}
    /\ \E i \in 1..(Len(segDates) - 1) :
          /\ ~DayAfter(segDates[i], segDates[i + 1])
          /\ SameSegment(segDates[i], segDates[i + 1])
          /\ \E d \in CalendarDays :
                /\ DateLess(segDates[i], d)
                /\ DateLess(d, segDates[i + 1])
                /\ getDay(fromISO(d)) = 6

(***************************************************************************)
(* The shape of the event list.                                            *)
(***************************************************************************)
NamesOn(es, d) ==
    IF findIndex(es, d) = -1 THEN <<>> ELSE es[findIndex(es, d) + 1].names

C13_WellFormed ==
    /\ \A i \in 1..(Len(entries) - 1) :
          DateLess(entries[i].date, entries[i + 1].date)
    /\ \A i \in 1..Len(entries) :
          /\ <<>> \notin Range(entries[i].names)
          /\ \A a, b \in 1..Len(entries[i].names) :
                a # b => entries[i].names[a] # entries[i].names[b]

\* addNamesToDate keeps the names the date has, in their order, and appends
\* the names it did not have; with no new name the list stays as it was
C13_AddStep ==
    UNCHANGED <<selectedDates, confirm>> =>
        \A dateISO \in UIDates : \A raw \in RawInputs :
            addNamesToDate(dateISO, raw) =>
                \A old \in {NamesOn(entries, dateISO)} :
                    \A new \in {NamesOn(entries', dateISO)} :
                        \A added \in {Range(parseNames(raw))} :
                            /\ SubSeq(new, 1, Len(old)) = old
                            /\ Range(new) = Range(old) \cup added
                            /\ added \subseteq Range(old) => new = old

\* C13: the event list holds at most one event per date, in ascending order
\* of date, and no name list holds a name twice or an empty name; adding
\* names a date already has leaves its name list as it was.
C13_EventListWellFormed == []C13_WellFormed /\ [][C13_AddStep]_vars

\* two events, one of which was given a name it already had together with a
\* new one
C13_Witness ==
    /\ Len(entries) = 2
    /\ \E i \in 1..Len(entries) : entries[i].names = << <<"k">>, <<"l">> >>

(***************************************************************************)
(* Names and the selection.                                                *)
(***************************************************************************)
\* C14: when names are added through the inputs of the selected dates, every
\* event with a name is on a selected date, so every date in a report row's
\* datesKey, and every date its day count counts, is a selected date.
C14_NamedEventsSelected ==
    LET rows == byPerson
        selected == Range(selectedDates)
    IN  /\ \A i \in 1..Len(entries) :
              entries[i].names # <<>> => entries[i].date \in selected
        /\ \A i \in 1..Len(rows) :
              /\ Range(split(rows[i].datesKey, ",")) \subseteq selected
              /\ rows[i].days =
                     Cardinality(DatesOf(entries, rows[i].name) \cap selected)

\* an event without names left on a date that is no longer selected, beside
\* a selected date with names
C14_Witness ==
    /\ \E i \in 1..Len(entries) :
          /\ entries[i].names = <<>>
          /\ entries[i].date \notin Range(selectedDates)
    /\ \E i \in 1..Len(entries) : Len(entries[i].names) = 2
    /\ Len(byPerson) = 2

(***************************************************************************)
(* The full reset.                                                         *)
(***************************************************************************)
C11_Step ==
    ClickConfirmReset =>
        /\ entries' = <<>>
        /\ selectedDates' = <<>>
        /\ tempInputs' = EmptyMap
        /\ rowOverride' = EmptyMap
        /\ highlightPerson' = NULL
        /\ aggregateByPerson(entries', fmt', mergeMode') = <<>>
        /\ groupedForRowSpanOf(aggregateByPerson(entries', fmt', mergeMode')) = <<>>
        /\ RenderTable(entries', rowOverride', mergeMode', fmt') = <<>>
        /\ highlightedDatesOf(entries', highlightPerson') = {}
        /\ mergeMode' = mergeMode
        /\ fmt' = fmt

\* C11: a confirmed full reset leaves the events, the selection, the inputs
\* and the overrides empty and no participant highlighted, so the report, the
\* grouped rows and the highlighted dates are empty; the global merge mode
\* and the format keep their values.
C11_ResetClearsAll == [][C11_Step]_vars

\* the session after a reset, under a mode and a format that were changed
\* before it
C11_Witness ==
    /\ entries = <<>>
    /\ selectedDates = <<>>
    /\ rowOverride = EmptyMap
    /\ highlightPerson = NULL
    /\ ~showResetConfirm
    /\ mergeMode = "RED"
    /\ fmt = "MM/DD"

(***************************************************************************)
(* The life of an override.                                                *)
(***************************************************************************)
\* the datesKey of every non-empty set of clicked dates
AllDatesKeys == {join(SetToSortedSeq(S), <<",">>) : S \in (SUBSET UIDates) \ {{}}}

\* a group whose datesKey has a stored mode shows that mode in its select
\* and the builder's periods for its dates under that mode
C15_StoredOverrideApplies ==
    LET t == table
    IN  \A g \in 1..Len(t) :
            (t[g].datesKey \in DOMAIN rowOverride
                /\ rowOverride[t[g].datesKey] \in MergeModes) =>
                /\ t[g].select = rowOverride[t[g].datesKey]
                /\ t[g].computedPeriods =
                       formatSegments(
                           buildSegments(
                               SetToSortedSeq(DatesOf(entries, t[g].names[1])),
                               rowOverride[t[g].datesKey]),
                           fmt)

\* the override map changes only by one key being set or by the reset, and
\* a step that changes the events, the selection, the inputs, the delete
\* confirmation, the global mode or the format is no setting of a key
C15_Step ==
    /\ rowOverride' # rowOverride =>
          \/ \E k \in AllDatesKeys : \E v \in OverrideValues :
                /\ rowOverride' = MapSet(rowOverride, k, v)
                /\ UNCHANGED <<entries, selectedDates, tempInputs, confirm,
                               mergeMode, fmt>>
          \/ /\ rowOverride' = EmptyMap
             /\ entries' = <<>>
             /\ selectedDates' = <<>>
             /\ tempInputs' = EmptyMap
    /\ \A k \in DOMAIN rowOverride :
          (k \notin DOMAIN rowOverride' \/ rowOverride'[k] # rowOverride[k]) =>
              \/ UNCHANGED <<entries, selectedDates, tempInputs, confirm,
                             mergeMode, fmt>>
              \/ rowOverride' = EmptyMap /\ entries' = <<>>

\* C15: the override map is changed only by the setting of an override and
\* by the full reset; date toggles, confirmed deletions, added and removed
\* names and changes of the global mode or the format leave it as it is, so
\* a stored override outlives its group and applies to every group that has
\* its date set.
C15_OverridePersists == []C15_StoredOverrideApplies /\ [][C15_Step]_vars

\* an override stored for a date set that no group has any more, while a
\* group with another date set is shown
C15_Witness ==
    /\ \E k \in DOMAIN rowOverride :
          /\ rowOverride[k] = "RED"
          /\ k \notin DisplayedKeys
          /\ Len(split(k, ",")) = 2
    /\ Len(table) = 1

=========================================================================
